---- MODULE Spec2Model ----
(***************************************************************************)
(* FusionFormatter (src/fusion_gcode_formatter.py): a line-oriented        *)
(* post-processor for lathe G-code.  Lines are TLA+ strings; a character   *)
(* of a string s is the one-character string SubSeq(s, i, i).              *)
(***************************************************************************)
EXTENDS Integers, Sequences, FiniteSets, TLC

VARIABLES
    pc,               \* position of main(): "start", "loop", "done"
    input,            \* read_file(input_file): the raw lines
    tools_json,       \* content of tools.json, or NoFile
    lines,            \* main's `lines`
    program_number,   \* main's `program_number`
    tool_data,        \* main's `tool_data`
    final,            \* main's `final`
    current_tool_key, \* main's `current_tool_key` ("" stands for None)
    active_tool,      \* main's `active_tool`
    i,                \* main's `i` (0-based, as in the source)
    output_lines,     \* main's `output_lines`
    call              \* a direct call of one function: its name, arguments, result

vars == <<pc, input, tools_json, lines, program_number, tool_data, final,
          current_tool_key, active_tool, i, output_lines, call>>

(* Bounds of the model *)

MaxLines == 4          \* longest input file of a run of main()
MaxMoves == 2          \* most machining lines of a one-tool scenario file
MaxUnitLines == 3      \* longest line list handed to a directly called function
MaxKeyLines == 4       \* most lines after the first tool change of a key-resolution file
MaxAhead == 31         \* most machining lines between a tool change and the comment ahead of it
MaxBehind == 16        \* most machining lines between a tool change and the one before it

(* Python string primitives *)

Min(a, b) == IF a < b THEN a ELSE b
Max(a, b) == IF a > b THEN a ELSE b

\* the character at 1-based position k, "" outside the string
Ch(s, k) == IF 1 <= k /\ k <= Len(s) THEN SubSeq(s, k, k) ELSE ""

\* the characters at 1-based positions a..b that exist
Sub(s, a, b) == IF a > Len(s) THEN "" ELSE SubSeq(s, a, Min(b, Len(s)))

Whitespace == {" ", "\t"}
DigitChars == {"0", "1", "2", "3", "4", "5", "6", "7", "8", "9"}

\* s[a:b] for 0 <= a <= b
Slice(s, a, b) == Sub(s, a + 1, b)

\* s[a:]
SliceFrom(s, a) == Sub(s, a + 1, Len(s))

RECURSIVE LStripSet(_, _)
LStripSet(s, cs) ==
    IF Len(s) > 0 /\ Ch(s, 1) \in cs THEN LStripSet(SubSeq(s, 2, Len(s)), cs) ELSE s

RECURSIVE RStripSet(_, _)
RStripSet(s, cs) ==
    IF Len(s) > 0 /\ Ch(s, Len(s)) \in cs THEN RStripSet(SubSeq(s, 1, Len(s) - 1), cs) ELSE s

\* s.strip(chars)
StripSet(s, cs) == RStripSet(LStripSet(s, cs), cs)

\* s.strip()
strip(s) == StripSet(s, Whitespace)

startswith(s, p) == Len(s) >= Len(p) /\ SubSeq(s, 1, Len(p)) = p
endswith(s, p) == Len(s) >= Len(p) /\ SubSeq(s, Len(s) - Len(p) + 1, Len(s)) = p

\* s.isdigit(): non-empty and every character a digit
isdigit(s) == Len(s) > 0 /\ \A k \in 1..Len(s) : Ch(s, k) \in DigitChars

UpperChars == "ABCDEFGHIJKLMNOPQRSTUVWXYZ"
LowerChars == "abcdefghijklmnopqrstuvwxyz"

UpperSet == {SubSeq(UpperChars, k, k) : k \in 1..26}

LowerOf == [c \in UpperSet |->
              SubSeq(LowerChars, CHOOSE k \in 1..26 : SubSeq(UpperChars, k, k) = c,
                                 CHOOSE k \in 1..26 : SubSeq(UpperChars, k, k) = c)]

LowerCh(c) == IF c \in UpperSet THEN LowerOf[c] ELSE c

RECURSIVE lower(_)
lower(s) == IF Len(s) = 0 THEN "" ELSE LowerCh(Ch(s, 1)) \o lower(SubSeq(s, 2, Len(s)))

DigitOf == [c \in DigitChars |-> (CHOOSE k \in 1..10 : SubSeq("0123456789", k, k) = c) - 1]

DigitVal(c) == DigitOf[c]

\* int(s) for a string of digits
RECURSIVE int(_)
int(s) == IF Len(s) = 0 THEN 0
          ELSE 10 * int(SubSeq(s, 1, Len(s) - 1)) + DigitVal(Ch(s, Len(s)))

\* str(n) for n >= 0
RECURSIVE str(_)
str(n) == IF n < 10 THEN Ch("0123456789", n + 1)
          ELSE str(n \div 10) \o Ch("0123456789", (n % 10) + 1)

(* Cleaning: lines 47-109 *)

KeepPrefixes == {"G", "N", "T", "O", "("}
KeepMarkers == {"%", "M99", "M30"}

\* a test that also takes the bare markers as prefixes
IsRelevant_MarkerPrefix(s) ==
    \E p \in KeepPrefixes \cup KeepMarkers : startswith(s, p)

\* the test of line 54 on the stripped line s
IsRelevant(s) == (\E p \in KeepPrefixes : startswith(s, p)) \/ s \in KeepMarkers

RECURSIVE keep_relevant_lines(_)
keep_relevant_lines(ls) ==
    IF ls = <<>> THEN <<>>
    ELSE LET s == strip(Head(ls))
             rest == keep_relevant_lines(Tail(ls))
         IN  IF s = "" THEN rest
             ELSE IF IsRelevant(s) THEN <<s>> \o rest
             ELSE rest

\* a loop that forgets the blank it has just dropped
RECURSIVE TidyFrom_ForgetsDropped(_, _)
TidyFrom_ForgetsDropped(ls, prev_blank) ==
    IF ls = <<>> THEN <<>>
    ELSE IF Head(ls) = ""
         THEN IF prev_blank THEN TidyFrom_ForgetsDropped(Tail(ls), FALSE)
              ELSE <<"">> \o TidyFrom_ForgetsDropped(Tail(ls), TRUE)
         ELSE <<Head(ls)>> \o TidyFrom_ForgetsDropped(Tail(ls), FALSE)

\* the loop of lines 65-72 over the remaining lines ls, with the flag prev_blank
RECURSIVE TidyFrom(_, _)
TidyFrom(ls, prev_blank) ==
    IF ls = <<>> THEN <<>>
    ELSE IF Head(ls) = ""
         THEN (IF prev_blank THEN <<>> ELSE <<"">>) \o TidyFrom(Tail(ls), TRUE)
         ELSE <<Head(ls)>> \o TidyFrom(Tail(ls), FALSE)

tidy_spacing(ls) == TidyFrom(ls, FALSE)

banned_prefixes == <<"G80", "G54", "G50", "G90", "G95", "G18", "G96", "G97">>

\* a test that looks for a banned code anywhere in the line
IsBanned_Anywhere(line) ==
    LET s == strip(line)
    IN  \E k \in 1..Len(banned_prefixes) : \E a \in 1..Len(s) :
            startswith(Sub(s, a, Len(s)), banned_prefixes[k])

\* the test of line 84 on the line as given
IsBanned(line) ==
    LET s == strip(line)
    IN  \E k \in 1..Len(banned_prefixes) : startswith(s, banned_prefixes[k])

RECURSIVE remove_unwanted_gcodes(_)
remove_unwanted_gcodes(ls) ==
    IF ls = <<>> THEN <<>>
    ELSE IF IsBanned(Head(ls)) THEN remove_unwanted_gcodes(Tail(ls))
         ELSE <<Head(ls)>> \o remove_unwanted_gcodes(Tail(ls))

\* line 101
IsProgramNumber(s) == startswith(s, "O") /\ isdigit(SliceFrom(s, 1))

\* a test that asks for two digits after the T
IsToolChange_TwoDigits(s) ==
    startswith(s, "T") /\ Len(Slice(s, 1, 3)) = 2 /\ isdigit(Slice(s, 1, 3))

\* lines 103 and 238
IsToolChange(s) == startswith(s, "T") /\ isdigit(Slice(s, 1, 3))

DefaultProgramNumber == "O0000"

\* a loop that tests the flag before the line that sets it: the first
\* tool-change line is not retained
RECURSIVE StripLoop_DropsFirstTool(_, _)
StripLoop_DropsFirstTool(ls, st) ==
    IF ls = <<>> THEN st
    ELSE LET s == strip(Head(ls))
         IN  IF s = "" \/ s = "%" THEN StripLoop_DropsFirstTool(Tail(ls), st)
             ELSE LET pn == IF IsProgramNumber(s) THEN s ELSE st.program_number
                      ft == IF IsToolChange(s) THEN TRUE ELSE st.found_tool
                      cl == IF st.found_tool THEN Append(st.cleaned, s) ELSE st.cleaned
                  IN  StripLoop_DropsFirstTool(Tail(ls), [program_number |-> pn, found_tool |-> ft, cleaned |-> cl])

\* a loop that appends every line, whether or not a tool change has been seen
RECURSIVE StripLoop_KeepsAll(_, _)
StripLoop_KeepsAll(ls, st) ==
    IF ls = <<>> THEN st
    ELSE LET s == strip(Head(ls))
         IN  IF s = "" \/ s = "%" THEN StripLoop_KeepsAll(Tail(ls), st)
             ELSE LET pn == IF IsProgramNumber(s) THEN s ELSE st.program_number
                      ft == IF IsToolChange(s) THEN TRUE ELSE st.found_tool
                      cl == Append(st.cleaned, s)
                  IN  StripLoop_KeepsAll(Tail(ls), [program_number |-> pn, found_tool |-> ft, cleaned |-> cl])

\* the loop of lines 97-106: st = [program_number, found_tool, cleaned],
\* program_number "" standing for None
RECURSIVE StripLoop(_, _)
StripLoop(ls, st) ==
    IF ls = <<>> THEN st
    ELSE LET s == strip(Head(ls))
         IN  IF s = "" \/ s = "%" THEN StripLoop(Tail(ls), st)
             ELSE LET pn == IF IsProgramNumber(s) THEN s ELSE st.program_number
                      ft == IF IsToolChange(s) THEN TRUE ELSE st.found_tool
                      cl == IF ft THEN Append(st.cleaned, s) ELSE st.cleaned
                  IN  StripLoop(Tail(ls), [program_number |-> pn, found_tool |-> ft, cleaned |-> cl])

\* returns <<program_number, cleaned>>
strip_preamble(ls) ==
    LET st == StripLoop(ls, [program_number |-> "", found_tool |-> FALSE, cleaned |-> <<>>])
    IN  <<IF st.program_number = "" THEN DefaultProgramNumber ELSE st.program_number,
          st.cleaned>>

(* IO: lines 34-42.  tools.json is [exists |-> FALSE] or                   *)
(* [exists |-> TRUE, items |-> <<<<key, value>>, ...>>]                    *)

RECURSIVE DictFromItems(_, _)
DictFromItems(items, d) ==
    IF items = <<>> THEN d
    ELSE LET k == lower(strip(Head(items)[1]))
             v == Head(items)[2]
         IN  DictFromItems(Tail(items),
                 [x \in (DOMAIN d) \cup {k} |-> IF x = k THEN v ELSE d[x]])

EmptyDict == [x \in {} |-> x]

load_tool_data(file) ==
    IF file.exists THEN DictFromItems(file.items, EmptyDict) ELSE EmptyDict

(* Tool utilities: lines 114-170 *)

\* the end (exclusive, 1-based) of the longest run of characters of cs starting at q
RECURSIVE SkipRun(_, _, _)
SkipRun(s, q, cs) ==
    IF q <= Len(s) /\ Ch(s, q) \in cs THEN SkipRun(s, q + 1, cs) ELSE q

\* tool_re = ^T(\d+): group 1, or "" when the pattern does not match
tool_re_match(tool_line) ==
    IF startswith(tool_line, "T")
    THEN Sub(tool_line, 2, SkipRun(tool_line, 2, DigitChars) - 1)
    ELSE ""

\* an N-number built from all the digits of the tool number
n_from_tool_AllDigits(tool_line) ==
    LET digits == tool_re_match(tool_line)
    IN  IF digits = "" THEN "N100"
        ELSE "N" \o str(int(digits) * 100)

n_from_tool(tool_line) ==
    LET digits == tool_re_match(tool_line)
    IN  IF digits = "" THEN "N100"
        ELSE LET num == IF Len(digits) >= 2 THEN int(Slice(digits, 0, 2)) ELSE int(digits)
             IN  "N" \o str(num * 100)

\* the pattern with (.*) for its group: a label with nothing after the separator matches
key_regex_at_EmptyGroup(content, p) ==
    LET q1 == SkipRun(content, p + 4, Whitespace \cup {"_", "-"})
        q3 == SkipRun(content, q1 + 3, Whitespace)
        rest == Sub(content, q3 + 1, Len(content))
    IN  IF /\ lower(Sub(content, p, p + 3)) = "tool"
           /\ lower(Sub(content, q1, q1 + 2)) = "key"
           /\ Ch(content, q3) \in {":", "="}
        THEN [matched |-> TRUE, group1 |-> LStripSet(rest, Whitespace)]
        ELSE [matched |-> FALSE, group1 |-> ""]

\* key_regex = (?i)tool[\s_\-]*key\s*[:=]\s*(.+) tried at position p of content:
\* [matched, group1]
key_regex_at(content, p) ==
    LET q1 == SkipRun(content, p + 4, Whitespace \cup {"_", "-"})
        q3 == SkipRun(content, q1 + 3, Whitespace)
        rest == Sub(content, q3 + 1, Len(content))
        r == LStripSet(rest, Whitespace)
    IN  IF /\ lower(Sub(content, p, p + 3)) = "tool"
           /\ lower(Sub(content, q1, q1 + 2)) = "key"
           /\ Ch(content, q3) \in {":", "="}
           /\ Len(rest) >= 1
        THEN [matched |-> TRUE,
              \* \s* is greedy but gives back one character when (.+) would be empty
              group1 |-> IF r # "" THEN r ELSE Ch(rest, Len(rest))]
        ELSE [matched |-> FALSE, group1 |-> ""]

\* key_regex.search(content): the match at the leftmost position that has one
key_regex_search(content) ==
    LET ps == {p \in 1..Len(content) : key_regex_at(content, p).matched}
    IN  IF ps = {} THEN [matched |-> FALSE, group1 |-> ""]
        ELSE key_regex_at(content, CHOOSE p \in ps : \A o \in ps : p <= o)

parse_tool_key(raw) ==
    LET content == strip(StripSet(strip(raw), {"(", ")"}))
        m == key_regex_search(content)
        key == IF m.matched THEN strip(m.group1) ELSE content
    IN  lower(key)

\* d.get(k, default)
DictGet(d, k, default) == IF k \in DOMAIN d THEN d[k] ELSE default

\* `not info` of line 150: the key is missing (None) or its entry is empty
InfoFalsy(td, key_lc) == key_lc \notin DOMAIN td \/ DOMAIN td[key_lc] = {}

build_tool_block(tool_number, tool_key, td) ==
    LET key_lc == lower(tool_key)
    IN  IF InfoFalsy(td, key_lc)
        THEN << n_from_tool(tool_number) \o " (UNKNOWN TOOL)",
                "G30U0W0",
                tool_number,
                "G140M08" >>
        ELSE LET info == td[key_lc]
                 display == DictGet(info, "display", "(UNKNOWN TOOL)")
                 tool_type == DictGet(info, "type", "G96")
                 speed == DictGet(info, "speed", "200")
                 feed == DictGet(info, "feed", ".25")
             IN  << n_from_tool(tool_number) \o " " \o display,
                    "G30U0W0",
                    tool_number,
                    "G140M08",
                    "G99" \o tool_type \o "S" \o speed \o "F" \o feed >>

(* Header / footer: lines 175-193 *)

header(pn) == <<"START", "%", pn, "N01G50S2000", "N02G28U0", "N03G28W0", "N04M00", "">>

\* a shutdown block without its leading blank line
footer_NoBlank == <<"M05S1500", "G28U0W0M40", "M99", "%">>

footer == <<"", "M05S1500", "G28U0W0M40", "M99", "%">>

insert_standard_blocks(pn, body) == header(pn) \o body \o footer

(* main: lines 198-309 *)

\* lines[j] for the 0-based index j of the source
At(ls, j) == ls[j + 1]

\* lines 230, 255 and 265
IsComment(s) == startswith(s, "(") /\ endswith(s, ")")

\* a marker test that knows M30 only
EndMarkers_OnlyM30 == {"M30"}

EndMarkers == {"M99", "M30"}

LookAheadStop == 31
LookBackStop == 16

\* a forward scan that runs to the end of the stream
ForwardScan_ToEnd(ls, at) ==
    LET js == {j \in (at + 1)..(Len(ls) - 1) :
                 IsComment(strip(At(ls, j))) /\ parse_tool_key(strip(At(ls, j))) # ""}
    IN  IF js = {} THEN ""
        ELSE parse_tool_key(strip(At(ls, CHOOSE j \in js : \A o \in js : j <= o)))

\* a backward scan that runs to the start of the stream
BackwardScan_ToStart(ls, at) ==
    LET js == {j \in 0..(at - 1) :
                 IsComment(strip(At(ls, j))) /\ parse_tool_key(strip(At(ls, j))) # ""}
    IN  IF js = {} THEN ""
        ELSE parse_tool_key(strip(At(ls, CHOOSE j \in js : \A o \in js : j >= o)))

\* lines 253-259: the key of the first comment ahead that has one, else ""
ForwardScan(ls, at) ==
    LET L == Len(ls)
        js == {j \in (at + 1)..(Min(at + LookAheadStop, L) - 1) :
                 IsComment(strip(At(ls, j))) /\ parse_tool_key(strip(At(ls, j))) # ""}
    IN  IF js = {} THEN ""
        ELSE parse_tool_key(strip(At(ls, CHOOSE j \in js : \A o \in js : j <= o)))

\* lines 263-269: the key of the nearest comment behind that has one, else ""
BackwardScan(ls, at) ==
    LET js == {j \in (Max(at - LookBackStop, -1) + 1)..(at - 1) :
                 IsComment(strip(At(ls, j))) /\ parse_tool_key(strip(At(ls, j))) # ""}
    IN  IF js = {} THEN ""
        ELSE parse_tool_key(strip(At(ls, CHOOSE j \in js : \A o \in js : j >= o)))

\* a resolution that looks ahead first and uses the pending key only after that
ResolveKey_AheadFirst(ls, at, pending) ==
    LET k1 == ForwardScan(ls, at)
        k2 == IF k1 = "" THEN pending ELSE k1
        k3 == IF k2 = "" /\ at > 0 THEN BackwardScan(ls, at) ELSE k2
    IN  k3

\* lines 249-269
ResolveKey(ls, at, pending) ==
    LET k1 == pending
        k2 == IF k1 = "" THEN ForwardScan(ls, at) ELSE k1
        k3 == IF k2 = "" /\ at > 0 THEN BackwardScan(ls, at) ELSE k2
    IN  k3

CloseBlock == <<"G30U0W0", "M01", "">>
\* an end-of-stream close-block that also writes an end marker
FinalCloseBlock_WithEndMarker == <<"G30U0W0", "M01", "M30">>

FinalCloseBlock == <<"G30U0W0", "M01">>

\* lines 211-224: load and pre-clean
PreClean ==
    /\ pc = "start"
    /\ LET l1 == keep_relevant_lines(input)
           l2 == tidy_spacing(l1)
           l3 == remove_unwanted_gcodes(l2)
           sp == strip_preamble(l3)
       IN  /\ program_number' = sp[1]
           /\ lines' = sp[2]
    /\ tool_data' = load_tool_data(tools_json)
    /\ final' = <<>>
    /\ current_tool_key' = ""
    /\ active_tool' = FALSE
    /\ i' = 0
    /\ pc' = "loop"
    /\ UNCHANGED <<input, tools_json, output_lines, call>>

\* a comment step that also copies the comment to the output
AsmComment_Copies ==
    /\ pc = "loop" /\ i < Len(lines)
    /\ LET s == strip(At(lines, i))
       IN  /\ IsComment(s)
           /\ current_tool_key' = IF parse_tool_key(s) # "" THEN parse_tool_key(s)
                                   ELSE current_tool_key
           /\ final' = Append(final, s)
    /\ i' = i + 1
    /\ UNCHANGED <<pc, input, tools_json, lines, program_number, tool_data,
                   active_tool, output_lines, call>>

\* lines 230-235
AsmComment ==
    /\ pc = "loop" /\ i < Len(lines)
    /\ LET s == strip(At(lines, i))
       IN  /\ IsComment(s)
           /\ current_tool_key' = IF parse_tool_key(s) # "" THEN parse_tool_key(s)
                                   ELSE current_tool_key
    /\ i' = i + 1
    /\ UNCHANGED <<pc, input, tools_json, lines, program_number, tool_data, final,
                   active_tool, output_lines, call>>

\* lines 238-276
AsmToolChange ==
    /\ pc = "loop" /\ i < Len(lines)
    /\ LET s == strip(At(lines, i))
           closed == IF active_tool THEN final \o CloseBlock ELSE final
           key == ResolveKey(lines, i, current_tool_key)
       IN  /\ ~IsComment(s)
           /\ IsToolChange(s)
           /\ final' = closed \o build_tool_block(s, key, tool_data)
    /\ active_tool' = TRUE
    /\ current_tool_key' = ""
    /\ i' = i + 1
    /\ UNCHANGED <<pc, input, tools_json, lines, program_number, tool_data,
                   output_lines, call>>

\* an end-marker step that emits the close-block but leaves the flag set
AsmEndMarker_KeepsActive ==
    /\ pc = "loop" /\ i < Len(lines)
    /\ LET s == strip(At(lines, i))
       IN  /\ ~IsComment(s)
           /\ ~IsToolChange(s)
           /\ s \in EndMarkers
    /\ final' = IF active_tool THEN final \o CloseBlock ELSE final
    /\ i' = i + 1
    /\ UNCHANGED <<pc, input, tools_json, lines, program_number, tool_data,
                   current_tool_key, active_tool, output_lines, call>>

\* lines 279-286
AsmEndMarker ==
    /\ pc = "loop" /\ i < Len(lines)
    /\ LET s == strip(At(lines, i))
       IN  /\ ~IsComment(s)
           /\ ~IsToolChange(s)
           /\ s \in EndMarkers
    /\ final' = IF active_tool THEN final \o CloseBlock ELSE final
    /\ active_tool' = FALSE
    /\ i' = i + 1
    /\ UNCHANGED <<pc, input, tools_json, lines, program_number, tool_data,
                   current_tool_key, output_lines, call>>

\* lines 289-290
AsmPassThrough ==
    /\ pc = "loop" /\ i < Len(lines)
    /\ LET s == strip(At(lines, i))
       IN  /\ ~IsComment(s)
           /\ ~IsToolChange(s)
           /\ s \notin EndMarkers
           /\ final' = Append(final, s)
    /\ i' = i + 1
    /\ UNCHANGED <<pc, input, tools_json, lines, program_number, tool_data,
                   current_tool_key, active_tool, output_lines, call>>

\* lines 293-298: the loop has ended
AsmEndOfStream ==
    /\ pc = "loop" /\ i >= Len(lines)
    /\ final' = IF active_tool THEN final \o FinalCloseBlock ELSE final
    /\ output_lines' = insert_standard_blocks(program_number, final')
    /\ pc' = "done"
    /\ UNCHANGED <<input, tools_json, lines, program_number, tool_data,
                   current_tool_key, active_tool, i, call>>

(* Runs of main() *)

\* all line lists of at most n lines over the vocabulary V
Seqs(V, n) == UNION {[1..k -> V] : k \in 0..n}

InputVocab == {"O1234", "(TOOL_KEY=DRILL1)", "T0101", "G01X1.Y1.", "M30", "M99"}

Drill1Entry == [display |-> "(DRILL 1)", type |-> "G97", speed |-> "1500", feed |-> ".1"]

ToolFiles == { [exists |-> FALSE],
               [exists |-> TRUE, items |-> << <<"Drill1 ", Drill1Entry>> >>] }

NoCall == [fn |-> "none"]

Init ==
    /\ pc = "start"
    /\ input \in Seqs(InputVocab, MaxLines)
    /\ tools_json \in ToolFiles
    /\ lines = <<>>
    /\ program_number = ""
    /\ tool_data = EmptyDict
    /\ final = <<>>
    /\ current_tool_key = ""
    /\ active_tool = FALSE
    /\ i = 0
    /\ output_lines = <<>>
    /\ call = NoCall

Next ==
    \/ PreClean
    \/ AsmComment
    \/ AsmToolChange
    \/ AsmEndMarker
    \/ AsmPassThrough
    \/ AsmEndOfStream

Spec == Init /\ [][Next]_vars

(* Runs of main() on one-tool files: a program number, a tool change, some  *)
(* machining lines and possibly an end marker, with the key comment at any *)
(* position of the file                                                    *)

\* ls with the line x inserted after its first k lines
InsertAt(ls, k, x) == SubSeq(ls, 1, k) \o <<x>> \o SubSeq(ls, k + 1, Len(ls))

ScenarioTools == {"T0101", "T7", "T7X"}

ScenarioBases ==
    {<<"O1234", tool>> \o moves \o ending :
        tool \in ScenarioTools,
        moves \in Seqs({"G01X1.Y1."}, MaxMoves),
        ending \in {<<>>, <<"M30">>, <<"M99">>}}

ScenarioInputs ==
    UNION {{InsertAt(b, k, "(TOOL_KEY=DRILL1)") : k \in 0..Len(b)} : b \in ScenarioBases}

InitScenario ==
    /\ pc = "start"
    /\ input \in ScenarioInputs
    /\ tools_json \in ToolFiles
    /\ lines = <<>>
    /\ program_number = ""
    /\ tool_data = EmptyDict
    /\ final = <<>>
    /\ current_tool_key = ""
    /\ active_tool = FALSE
    /\ i = 0
    /\ output_lines = <<>>
    /\ call = NoCall

SpecScenario == InitScenario /\ [][Next]_vars

(* Runs of main() on files that start at their first tool change and hold   *)
(* tool changes, key comments, an unclosed comment and machining lines,    *)
(* with both keys in tools.json                                            *)

KeyVocab == {"T0101", "(K1)", "(K2)", "()", "(X", "G01X1.Y1."}

K1Entry == [display |-> "(TOOL ONE)", type |-> "G96", speed |-> "100", feed |-> ".1"]
K2Entry == [display |-> "(TOOL TWO)", type |-> "G97", speed |-> "200", feed |-> ".2"]

KeysFile == [exists |-> TRUE, items |-> << <<"K1", K1Entry>>, <<"K2", K2Entry>> >>]

InitKeys ==
    /\ pc = "start"
    /\ \E rest \in Seqs(KeyVocab, MaxKeyLines) : input = <<"T0101">> \o rest
    /\ tools_json = KeysFile
    /\ lines = <<>>
    /\ program_number = ""
    /\ tool_data = EmptyDict
    /\ final = <<>>
    /\ current_tool_key = ""
    /\ active_tool = FALSE
    /\ i = 0
    /\ output_lines = <<>>
    /\ call = NoCall

\* the steps of main() that such a file can take: it holds no end marker
NextKeys ==
    \/ PreClean
    \/ AsmComment
    \/ AsmToolChange
    \/ AsmPassThrough
    \/ AsmEndOfStream

SpecKeys == InitKeys /\ [][NextKeys]_vars

\* ---- long files: a comment far ahead of or far behind a tool change ----

\* n machining lines
Moves(n) == [k \in 1..n |-> "G01"]

\* T0101 (K1) T0101 <m moves> T0101 <n moves> (K2), with either comment
\* possibly left out: the third tool change has no pending key, (K2) lies
\* n + 1 lines ahead of it and (K1) lies m + 2 lines behind it
WindowInputs ==
    {<<"T0101">> \o c1 \o <<"T0101">> \o Moves(m) \o <<"T0101">> \o Moves(n) \o c2 :
        c1 \in {<<>>, <<"(K1)">>}, c2 \in {<<>>, <<"(K2)">>, <<"(K2)", "(K1)">>},
        m \in 0..MaxBehind, n \in 0..MaxAhead}

InitWindow ==
    /\ pc = "start"
    /\ input \in WindowInputs
    /\ tools_json = KeysFile
    /\ lines = <<>>
    /\ program_number = ""
    /\ tool_data = EmptyDict
    /\ final = <<>>
    /\ current_tool_key = ""
    /\ active_tool = FALSE
    /\ i = 0
    /\ output_lines = <<>>
    /\ call = NoCall

SpecWindow == InitWindow /\ [][NextKeys]_vars

(* Direct calls of the functions: a call record holds the function name,   *)
(* its arguments, and, once the function has run, its result               *)

ToolTokens == {"T0700", "T0300", "T7", "T", "TX", "G01", "T0101", "T12", "T123",
               "T99X", "", "T0", "T00", "T05", "T5A", "N10", "T1000", "xT01"}

KeyLabels == {"TOOL", "Tool", "tool"}
KeyRuns == {"", "_", " ", "-_ "}
KeyWords == {"KEY", "key"}
KeyGaps == {"", " "}
KeySeps == {"=", ":", ""}
KeyValues == {"", " ", "UDRILL50", " D1 ", "A tool key: B"}
KeyLeads == {"", "X "}

CommentBodies ==
    {ld \o lb \o rn \o kw \o gp \o sp \o vl :
        ld \in KeyLeads, lb \in KeyLabels, rn \in KeyRuns, kw \in KeyWords,
        gp \in KeyGaps, sp \in KeySeps, vl \in KeyValues}
    \cup {"UDRILL50", "", "TOOL", " Abc ", "(X)", "Tool Key: UDRILL50", "KEY=A"}

RawComments == {"(" \o b \o ")" : b \in CommentBodies} \cup {" ( " \o b \o " ) " : b \in CommentBodies}

RawVocab == {"", " G01 X1 ", "N10", "T0101", "O1234", "(C)", " % ", "M99", "M30",
             "M05", "M30 X", "X1 G01"}

GcodeVocab == {"G50S2000", " G96S200", "G99G96S200F.25", "G01X1", "N5G54", "G9",
               "G18", " G97 ", "G800", "g80"}

PreambleVocab == {"O1234", "O5678", "T0101", " G01 ", "%", "OX1", "", "O", "T7", "(K)"}

TidyVocab == {"", " ", "G01"}

BodyVocab == {"G01", "", "M01", "%"}

PartialEntry == [display |-> "(PART)"]

ToolTables == { EmptyDict,
                [k \in {"drill1"} |-> Drill1Entry],
                [k \in {"drill1", ""} |-> Drill1Entry],
                [k \in {"drill1", "bare"} |-> IF k = "bare" THEN EmptyDict ELSE PartialEntry] }

ToolKeys == {"", "drill1", "DRILL1", "nokey", "bare"}

CallInputs ==
    {[fn |-> "n_from_tool", tool_line |-> t] : t \in ToolTokens}
    \cup {[fn |-> "parse_tool_key", raw |-> r] : r \in RawComments}
    \cup {[fn |-> "keep_relevant_lines", lines |-> ls] : ls \in Seqs(RawVocab, MaxUnitLines)}
    \cup {[fn |-> "remove_unwanted_gcodes", lines |-> ls] : ls \in Seqs(GcodeVocab, MaxUnitLines)}
    \cup {[fn |-> "strip_preamble", lines |-> ls] : ls \in Seqs(PreambleVocab, MaxUnitLines)}
    \cup {[fn |-> "tidy_spacing", lines |-> ls] : ls \in Seqs(TidyVocab, MaxUnitLines)}
    \cup {[fn |-> "build_tool_block", tool_number |-> t, tool_key |-> k, tool_data |-> td] :
              t \in {"T0101", "T0700"}, k \in ToolKeys, td \in ToolTables}
    \cup {[fn |-> "insert_standard_blocks", program_number |-> pn, body |-> b] :
              pn \in {"O1234", DefaultProgramNumber}, b \in Seqs(BodyVocab, MaxUnitLines)}

InitCalls ==
    /\ pc = "call"
    /\ \E c \in CallInputs : call = [args |-> c, done |-> FALSE, ret |-> <<>>]
    /\ input = <<>>
    /\ tools_json = [exists |-> FALSE]
    /\ lines = <<>>
    /\ program_number = ""
    /\ tool_data = EmptyDict
    /\ final = <<>>
    /\ current_tool_key = ""
    /\ active_tool = FALSE
    /\ i = 0
    /\ output_lines = <<>>

MainVars == <<input, tools_json, lines, program_number, tool_data, final,
              current_tool_key, active_tool, i, output_lines>>

\* the call returns r
Return(name, r) ==
    /\ pc = "call" /\ ~call.done /\ call.args.fn = name
    /\ call' = [call EXCEPT !.done = TRUE, !.ret = r]
    /\ pc' = "returned"
    /\ UNCHANGED MainVars

Call_n_from_tool ==
    /\ call.args.fn = "n_from_tool"
    /\ Return("n_from_tool", n_from_tool(call.args.tool_line))

Call_parse_tool_key ==
    /\ call.args.fn = "parse_tool_key"
    /\ Return("parse_tool_key", parse_tool_key(call.args.raw))

Call_keep_relevant_lines ==
    /\ call.args.fn = "keep_relevant_lines"
    /\ Return("keep_relevant_lines", keep_relevant_lines(call.args.lines))

Call_remove_unwanted_gcodes ==
    /\ call.args.fn = "remove_unwanted_gcodes"
    /\ Return("remove_unwanted_gcodes", remove_unwanted_gcodes(call.args.lines))

Call_strip_preamble ==
    /\ call.args.fn = "strip_preamble"
    /\ Return("strip_preamble", strip_preamble(call.args.lines))

Call_build_tool_block ==
    /\ call.args.fn = "build_tool_block"
    /\ Return("build_tool_block",
              build_tool_block(call.args.tool_number, call.args.tool_key, call.args.tool_data))

Call_insert_standard_blocks ==
    /\ call.args.fn = "insert_standard_blocks"
    /\ Return("insert_standard_blocks",
              insert_standard_blocks(call.args.program_number, call.args.body))

Call_tidy_spacing ==
    /\ call.args.fn = "tidy_spacing"
    /\ Return("tidy_spacing", tidy_spacing(call.args.lines))

NextCalls ==
    \/ Call_n_from_tool
    \/ Call_parse_tool_key
    \/ Call_keep_relevant_lines
    \/ Call_remove_unwanted_gcodes
    \/ Call_strip_preamble
    \/ Call_build_tool_block
    \/ Call_insert_standard_blocks
    \/ Call_tidy_spacing

SpecCalls == InitCalls /\ [][NextCalls]_vars

\* the finished call of the function `name`
Returned(name) == pc = "returned" /\ call.args.fn = name

(* Properties of the assembler and of whole runs (specification Spec) *)

\* the positions of f where a close-block starts: G30U0W0 followed by M01
ClosePositions(f) ==
    {k \in 1..(Len(f) - 1) : f[k] = "G30U0W0" /\ f[k + 1] = "M01"}

\* the positions of f where the retract line of a tool header stands:
\* G30U0W0 followed by the tool-change line and the coolant line
HeaderPositions(f) ==
    {k \in 1..(Len(f) - 2) : f[k] = "G30U0W0" /\ IsToolChange(f[k + 1]) /\ f[k + 2] = "G140M08"}

\* closes never exceed opens, and two close-blocks always have a header between them
ClosesFollowOpens(f) ==
    /\ Cardinality(ClosePositions(f)) <= Cardinality(HeaderPositions(f))
    /\ \A k1, k2 \in ClosePositions(f) :
          k1 < k2 => \E h \in HeaderPositions(f) : k1 < h /\ h < k2

C2_EndMarkersSuppressed ==
    /\ \A k \in 1..Len(final) : final[k] # "M30" /\ final[k] # "M99"
    /\ pc = "done" =>
          \A k \in 9..(Len(output_lines) - 4) : output_lines[k] # "M30" /\ output_lines[k] # "M99"

\* a finished run whose stream held both markers after the first tool change
C2_Witness ==
    /\ pc = "done"
    /\ \E k1, k2 \in 1..Len(lines) : lines[k1] = "M30" /\ lines[k2] = "M99"
    /\ \E k \in 1..Len(final) : final[k] = "G01X1.Y1."

C3_Input == <<"O1234", "(TOOL_KEY=DRILL1)", "T0101", "G01X1.Y1.", "M30">>

\* C3: the scenario input, with drill1 in the table, gives the startup block
\* with O1234, the header of drill1 (display line N100, speed/feed line), the
\* passthrough line and a close-block, then the shutdown block.
C3_KeyBeforeFirstTool ==
    (pc = "done" /\ input = C3_Input /\ "drill1" \in DOMAIN tool_data) =>
        /\ SubSeq(output_lines, 1, 8) =
              <<"START", "%", "O1234", "N01G50S2000", "N02G28U0", "N03G28W0", "N04M00", "">>
        /\ SubSeq(output_lines, 9, 16) =
              <<"N100 (DRILL 1)", "G30U0W0", "T0101", "G140M08", "G99G97S1500F.1",
                "G01X1.Y1.", "G30U0W0", "M01">>
        /\ SubSeq(output_lines, Len(output_lines) - 3, Len(output_lines)) =
              <<"M05S1500", "G28U0W0M40", "M99", "%">>

(* Properties of the functions called directly (specification SpecCalls) *)

\* the smallest element of a non-empty set of integers
Least(S) == CHOOSE x \in S : \A y \in S : x <= y

\* the subsequence of ls at the positions K, in order
Pick(ls, K) == [m \in 1..Cardinality(K) |-> ls[CHOOSE k \in K : Cardinality({j \in K : j <= k}) = m]]

\* the positions of ls whose trimmed line is O followed only by digits
ProgramNumberLines(ls) ==
    {k \in 1..Len(ls) :
        LET t == strip(ls[k])
        IN  Len(t) >= 2 /\ Ch(t, 1) = "O" /\ \A c \in 2..Len(t) : Ch(t, c) \in DigitChars}

\* C4: strip_preamble returns as program number the first line of its input
\* that is O followed only by digits; a later such line never overrides it.
C4_FirstProgramNumberWins ==
    (Returned("strip_preamble") /\ ProgramNumberLines(call.args.lines) # {}) =>
        call.ret[1] = strip(call.args.lines[Least(ProgramNumberLines(call.args.lines))])

\* C5: build_tool_block emits the N-line, G30U0W0, the tool-change line and
\* G140M08, plus the speed/feed line if and only if the key is non-empty and
\* present in the table; otherwise the N-line is marked (UNKNOWN TOOL).
C5_SpeedFeedIffKeyKnown ==
    Returned("build_tool_block") =>
        LET a == call.args
            r == call.ret
            k == lower(a.tool_key)
            known == a.tool_key # "" /\ k \in DOMAIN a.tool_data
        IN  /\ Len(r) = IF known THEN 5 ELSE 4
            /\ r[2] = "G30U0W0" /\ r[3] = a.tool_number /\ r[4] = "G140M08"
            /\ known =>
                  /\ r[1] = n_from_tool(a.tool_number) \o " "
                               \o DictGet(a.tool_data[k], "display", "(UNKNOWN TOOL)")
                  /\ r[5] = "G99" \o DictGet(a.tool_data[k], "type", "G96")
                               \o "S" \o DictGet(a.tool_data[k], "speed", "200")
                               \o "F" \o DictGet(a.tool_data[k], "feed", ".25")
            /\ ~known => r[1] = n_from_tool(a.tool_number) \o " (UNKNOWN TOOL)"

\* the number of digits that follow the first character of t
LeadingDigits(t) ==
    Least({n \in 0..Len(t) : Ch(t, n + 2) \notin DigitChars})

\* the decimal text of 100 times the number written by the first two digits
\* after T (by the only digit when there is one)
HundredTimesPrefix(t) ==
    LET d == IF LeadingDigits(t) >= 2 THEN Sub(t, 2, 3) ELSE Ch(t, 2)
        significant == LStripSet(d, {"0"})
    IN  IF significant = "" THEN "0" ELSE significant \o "00"

\* C6: n_from_tool gives N followed by 100 times the first two digits after T
\* (the one digit when there is only one), and N100 for a token without
\* digits after T or not starting with T; T0700 -> N700, T0300 -> N300,
\* T7 -> N700.
C6_NNumberFromFirstTwoDigits ==
    Returned("n_from_tool") =>
        LET t == call.args.tool_line
        IN  /\ call.ret = IF Ch(t, 1) = "T" /\ LeadingDigits(t) >= 1
                          THEN "N" \o HundredTimesPrefix(t)
                          ELSE "N100"
            /\ t = "T0700" => call.ret = "N700"
            /\ t = "T0300" => call.ret = "N300"
            /\ t = "T7" => call.ret = "N700"

\* a tool number of more than two digits whose N-number comes from the first two
C6_Witness ==
    Returned("n_from_tool") /\ call.args.tool_line = "T0700" /\ call.ret = "N700"

\* the comment body: parentheses and whitespace around it removed
CommentContent(raw) == strip(StripSet(strip(raw), {"(", ")"}))

\* the positions b of c that hold a `:` or `=` closing a label: `tool`, a run
\* of spaces, underscores or hyphens, `key`, optional whitespace, all in any case
LabelSeparators(c) ==
    {b \in 1..Len(c) :
        /\ Ch(c, b) \in {":", "="}
        /\ \E p \in 1..b : \E a \in (p + 4)..b :
              /\ lower(Sub(c, p, p + 3)) = "tool"
              /\ \A x \in (p + 4)..(a - 1) : Ch(c, x) \in Whitespace \cup {"_", "-"}
              /\ a + 2 < b
              /\ lower(Sub(c, a, a + 2)) = "key"
              /\ \A x \in (a + 3)..(b - 1) : Ch(c, x) \in Whitespace}

C7_Examples ==
    /\ call.args.raw = "(TOOL_KEY=UDRILL50)" => call.ret = "udrill50"
    /\ call.args.raw = "(Tool Key: UDRILL50)" => call.ret = "udrill50"
    /\ call.args.raw = "(UDRILL50)" => call.ret = "udrill50"

\* C7 as stated: when the comment body contains the label followed by `:` or
\* `=`, the result is the trimmed value after the separator in lower case;
\* otherwise it is the whole body in lower case.
C7_AsStated ==
    Returned("parse_tool_key") =>
        LET c == CommentContent(call.args.raw)
            seps == LabelSeparators(c)
        IN  /\ call.ret = IF seps # {}
                          THEN lower(strip(Sub(c, Least(seps) + 1, Len(c))))
                          ELSE lower(c)
            /\ C7_Examples

\* C7 amended: the labelled form needs at least one character after the
\* separator; then the result is everything after the first such separator,
\* trimmed and in lower case; otherwise (no label, or a label whose separator
\* ends the body) the result is the whole body in lower case.
C7_LabelledValueElseWholeBody ==
    Returned("parse_tool_key") =>
        LET c == CommentContent(call.args.raw)
            seps == {b \in LabelSeparators(c) : b < Len(c)}
        IN  /\ call.ret = IF seps # {}
                          THEN lower(strip(Sub(c, Least(seps) + 1, Len(c))))
                          ELSE lower(c)
            /\ C7_Examples

\* a labelled comment whose value is extracted
C7_Witness ==
    Returned("parse_tool_key") /\ call.args.raw = "(Tool Key: UDRILL50)" /\ call.ret = "udrill50"

\* C8: keep_relevant_lines returns, in order and trimmed, exactly the lines
\* whose trimmed form is non-empty and starts with G, N, T, O or `(`, or is
\* exactly %, M99 or M30.
C8_KeepsExactlyRelevantLines ==
    Returned("keep_relevant_lines") =>
        LET ls == call.args.lines
            t == [k \in 1..Len(ls) |-> strip(ls[k])]
            kept == {k \in 1..Len(ls) :
                        /\ t[k] # ""
                        /\ \/ Ch(t[k], 1) \in {"G", "N", "T", "O", "("}
                           \/ t[k] \in {"%", "M99", "M30"}}
        IN  call.ret = Pick(t, kept)

\* a call that keeps a marker, trims a kept line and drops another line
C8_Witness ==
    /\ Returned("keep_relevant_lines")
    /\ call.args.lines = <<" % ", "M30 X", " G01 X1 ">>
    /\ call.ret = <<"%", "G01 X1">>

\* C9: remove_unwanted_gcodes removes exactly the lines whose trimmed form
\* starts with G80, G54, G50, G90, G95, G18, G96 or G97; the other lines,
\* G99G96S200F.25 among them, stay in order and unchanged.
C9_RemovesByPrefixOnly ==
    Returned("remove_unwanted_gcodes") =>
        LET ls == call.args.lines
            kept == {k \in 1..Len(ls) :
                        Sub(strip(ls[k]), 1, 3) \notin
                            {"G80", "G54", "G50", "G90", "G95", "G18", "G96", "G97"}}
        IN  /\ call.ret = Pick(ls, kept)
            /\ \A k \in 1..Len(ls) :
                  ls[k] = "G99G96S200F.25" => \E m \in 1..Len(call.ret) : call.ret[m] = ls[k]

\* a call that removes a G96 line and keeps the generated G99G96 line
C9_Witness ==
    /\ Returned("remove_unwanted_gcodes")
    /\ call.args.lines = <<" G96S200", "G99G96S200F.25", "N5G54">>
    /\ call.ret = <<"G99G96S200F.25", "N5G54">>

StartupBlock(pn) == <<"START", "%", pn, "N01G50S2000", "N02G28U0", "N03G28W0", "N04M00", "">>
ShutdownBlock == <<"M05S1500", "G28U0W0M40", "M99", "%">>

\* C10 as stated: the result is the 8 startup lines, the body unchanged, and
\* the 4 shutdown lines, with nothing between the body and the shutdown block.
C10_AsStated ==
    Returned("insert_standard_blocks") =>
        call.ret = StartupBlock(call.args.program_number) \o call.args.body \o ShutdownBlock

\* C10 amended: the result is the 8 startup lines, the body unchanged, one
\* blank line, and the 4 shutdown lines.
C10_BlankBeforeShutdown ==
    Returned("insert_standard_blocks") =>
        LET r == call.ret
            n == Len(call.args.body)
        IN  /\ Len(r) = 8 + n + 5
            /\ SubSeq(r, 1, 8) = StartupBlock(call.args.program_number)
            /\ \A k \in 1..n : r[8 + k] = call.args.body[k]
            /\ r[8 + n + 1] = ""
            /\ SubSeq(r, 8 + n + 2, 8 + n + 5) = ShutdownBlock

\* a wrapped body of two lines
C10_Witness ==
    /\ Returned("insert_standard_blocks")
    /\ call.args.program_number = "O1234"
    /\ call.args.body = <<"G01", "M01">>
    /\ Len(call.ret) = 15

(* Properties of whole runs, continued (specification Spec) *)

\* the trimmed input lines that pass the line filter
FilteredInputLines ==
    {strip(input[k]) : k \in {j \in 1..Len(input) :
        LET t == strip(input[j])
        IN  t # "" /\ (Ch(t, 1) \in {"G", "N", "T", "O", "("} \/ t \in {"%", "M99", "M30"})}}

\* the lines of the startup and shutdown templates, for the program number pn
TemplateLines(pn) ==
    {"START", "%", pn, "N01G50S2000", "N02G28U0", "N03G28W0", "N04M00", "",
     "M05S1500", "G28U0W0M40", "M99"}

\* the lines a tool header can hold besides the tool-change line itself
GeneratedHeaderLines ==
    {"G30U0W0", "G140M08"}
    \cup {n_from_tool(t) \o " (UNKNOWN TOOL)" : t \in FilteredInputLines}
    \cup {n_from_tool(t) \o " " \o DictGet(tool_data[k], "display", "(UNKNOWN TOOL)") :
             t \in FilteredInputLines, k \in DOMAIN tool_data}
    \cup {"G99" \o DictGet(tool_data[k], "type", "G96") \o "S" \o DictGet(tool_data[k], "speed", "200")
             \o "F" \o DictGet(tool_data[k], "feed", ".25") : k \in DOMAIN tool_data}

CloseBlockLines == {"G30U0W0", "M01", ""}

\* C11: every line of the final output is a template line (with the program
\* number, an input line or the default), a generated tool header line, a
\* close-block line, or the trimmed form of an input line that passed
\* keep_relevant_lines.
C11_NoInventedLines ==
    pc = "done" =>
        /\ program_number \in FilteredInputLines \cup {"O0000"}
        /\ \A k \in 1..Len(output_lines) :
              output_lines[k] \in TemplateLines(program_number) \cup GeneratedHeaderLines
                                   \cup CloseBlockLines \cup FilteredInputLines

\* a finished run with a resolved tool header and a passed-through input line
C11_Witness ==
    /\ pc = "done"
    /\ \E k \in 1..Len(output_lines) : output_lines[k] = "G99G97S1500F.1"
    /\ \E k \in 1..Len(output_lines) : output_lines[k] = "G01X1.Y1."

\* T followed by a digit, and by nothing else or by another digit
PassesToolTest(s) ==
    /\ Ch(s, 1) = "T"
    /\ Ch(s, 2) \in DigitChars
    /\ Len(s) = 2 \/ Ch(s, 3) \in DigitChars

\* C20: the list returned by strip_preamble is empty or begins with a
\* tool-change line; the assembled body is empty or begins with the N-line of
\* the header of that tool change; every passed-through line stands after a
\* tool header.
C20_BodyBeginsWithToolHeader ==
    pc \in {"loop", "done"} =>
        /\ lines = <<>> \/ PassesToolTest(lines[1])
        /\ \/ final = <<>>
           \/ /\ Len(final) >= 4
              /\ Ch(final[1], 1) = "N"
              /\ final[2] = "G30U0W0" /\ final[3] = lines[1] /\ final[4] = "G140M08"
        /\ \A k \in 1..Len(final) :
              (\E j \in 1..Len(lines) : lines[j] = final[k] /\ ~PassesToolTest(lines[j]))
                  => \E h \in HeaderPositions(final) : h < k

\* a finished run whose file had lines before its first tool change and
\* passed-through lines after it
C20_Witness ==
    /\ pc = "done"
    /\ Len(input) > Len(lines) /\ Len(lines) >= 2
    /\ \E k \in 1..Len(final) : final[k] = "G01X1.Y1."

(* Properties of the functions called directly, continued (specification SpecCalls) *)

\* C12: tidy_spacing applied to its own result changes nothing, and its
\* result never holds two consecutive blank lines.
C12_TidyIdempotent ==
    Returned("tidy_spacing") =>
        /\ tidy_spacing(call.ret) = call.ret
        /\ \A k \in 1..(Len(call.ret) - 1) : ~(call.ret[k] = "" /\ call.ret[k + 1] = "")

\* a run of three blank lines collapsed to one
C12_Witness ==
    Returned("tidy_spacing") /\ call.args.lines = <<"", "", "">> /\ call.ret = <<"">>

\* the positions of ls whose trimmed line passes the tool-change test of line 103
ToolChangeLines(ls) == {k \in 1..Len(ls) : PassesToolTest(strip(ls[k]))}

\* C13 as stated: the returned list is the suffix of the (trimmed) input that
\* starts at the first tool-change line, every line of it retained.
C13_AsStated ==
    Returned("strip_preamble") =>
        LET ls == call.args.lines
            t == [k \in 1..Len(ls) |-> strip(ls[k])]
        IN  call.ret[2] = IF ToolChangeLines(ls) = {} THEN <<>>
                          ELSE SubSeq(t, Least(ToolChangeLines(ls)), Len(ls))

\* C13 amended: the returned list is the suffix of the trimmed input that
\* starts at the first tool-change line, without its lines that are empty or
\* exactly `%`, which are dropped wherever they stand.
C13_SuffixWithoutBlankAndPercent ==
    Returned("strip_preamble") =>
        LET ls == call.args.lines
            t == [k \in 1..Len(ls) |-> strip(ls[k])]
        IN  call.ret[2] = IF ToolChangeLines(ls) = {} THEN <<>>
                          ELSE Pick(t, {k \in Least(ToolChangeLines(ls))..Len(ls) :
                                           t[k] # "" /\ t[k] # "%"})

\* a `%` line after the first tool change, dropped with the preamble
C13_Witness ==
    /\ Returned("strip_preamble")
    /\ call.args.lines = <<"O1234", "T0101", "%">>
    /\ call.ret[2] = <<"T0101">>

(* Properties of runs on one-tool files (specification SpecScenario) *)

\* T followed by at least two digits
TwoDigitTool(s) == Ch(s, 1) = "T" /\ Ch(s, 2) \in DigitChars /\ Ch(s, 3) \in DigitChars

\* this step of the assembler opens a tool block for the line it reads: the
\* output grows by a block holding the retract line, that line and the coolant line
OpensToolBlock ==
    /\ active_tool'
    /\ \E h \in (Len(final) + 1)..(Len(final') - 2) :
          final'[h] = "G30U0W0" /\ final'[h + 1] = At(lines, i) /\ final'[h + 2] = "G140M08"

\* C14 as stated: strip_preamble finds a first tool (and so returns a
\* non-empty list) exactly when some line is T followed by at least two
\* digits, and the assembler opens a tool block for exactly such lines.
C14_AsStated ==
    [][ /\ pc = "start" =>
              (lines' # <<>> <=> \E k \in 1..Len(input) : TwoDigitTool(strip(input[k])))
        /\ (pc = "loop" /\ i < Len(lines)) =>
              (OpensToolBlock <=> TwoDigitTool(At(lines, i))) ]_vars

\* C14 amended: a line is treated as a tool change, by strip_preamble and by
\* the assembler alike, exactly when it starts with T and the one or two
\* characters after the T (as many as the line has, two at most) are all
\* digits: T followed by two digits, or T and a single digit and nothing else.
C14_ToolTestTakesLoneDigit ==
    [][ /\ pc = "start" =>
              (lines' # <<>> <=> \E k \in 1..Len(input) : PassesToolTest(strip(input[k])))
        /\ (pc = "loop" /\ i < Len(lines)) =>
              (OpensToolBlock <=> PassesToolTest(At(lines, i))) ]_vars

\* a finished run in which T7 set the found-tool flag and opened a tool block
C14_Witness ==
    /\ pc = "done"
    /\ lines # <<>> /\ lines[1] = "T7"
    /\ Len(final) >= 4 /\ final[2] = "G30U0W0" /\ final[3] = "T7" /\ final[4] = "G140M08"

(* Properties of key resolution (specification SpecKeys) *)

\* the 0-based positions of ls that hold a comment with a non-empty key
KeyComments(ls) ==
    {j \in 0..(Len(ls) - 1) :
        /\ Ch(At(ls, j), 1) = "(" /\ Ch(At(ls, j), Len(At(ls, j))) = ")"
        /\ parse_tool_key(At(ls, j)) # ""}

\* the 0-based positions of ls that hold a tool-change line
ToolPositions(ls) == {j \in 0..(Len(ls) - 1) : PassesToolTest(At(ls, j))}

\* the position of the last tool change before position at, -1 when there is none
PreviousTool(ls, at) ==
    IF \E p \in ToolPositions(ls) : p < at
    THEN CHOOSE p \in ToolPositions(ls) : p < at /\ \A q \in ToolPositions(ls) : q < at => q <= p
    ELSE -1

\* the position of the first tool change after position at, Len(ls) when there is none
FollowingTool(ls, at) ==
    IF \E p \in ToolPositions(ls) : p > at
    THEN CHOOSE p \in ToolPositions(ls) : p > at /\ \A q \in ToolPositions(ls) : q > at => q >= p
    ELSE Len(ls)

\* the assembler is about to read a tool-change line
AtToolChange == pc = "loop" /\ i < Len(lines) /\ PassesToolTest(At(lines, i))

\* the headers of f that show the display of a table entry
ResolvedHeaders(f) == {h \in HeaderPositions(f) : h > 1 /\ f[h - 1] # "N100 (UNKNOWN TOOL)"}

\* C15: once a tool-change line has been processed the pending key is empty,
\* and the key resolved for a tool change is the key of a comment that does
\* not precede the previous tool-change line.
C15_KeyDoesNotLeak ==
    /\ (pc \in {"loop", "done"} /\ i > 0 /\ PassesToolTest(lines[i])) => current_tool_key = ""
    /\ (AtToolChange /\ PreviousTool(lines, i) >= 0) =>
          LET key == ResolveKey(lines, i, current_tool_key)
          IN  key # "" =>
                \E j \in KeyComments(lines) :
                    j > PreviousTool(lines, i) /\ parse_tool_key(At(lines, j)) = key

\* C19: each comment supplies the key of at most one tool header, so a
\* finished run has no more resolved headers than key comments; and a key
\* found by the forward scan comes from a comment before the next tool change.
C19_OneHeaderPerComment ==
    /\ pc = "done" =>
          Cardinality(ResolvedHeaders(final)) <= Cardinality(KeyComments(lines))
    /\ (AtToolChange /\ current_tool_key = "") =>
          LET key == ForwardScan(lines, i)
          IN  key # "" =>
                \E j \in KeyComments(lines) :
                    /\ i < j /\ j < FollowingTool(lines, i)
                    /\ parse_tool_key(At(lines, j)) = key

\* this step emits a tool header whose display line is that of the table
\* entry of key k, the key "" giving the unknown-tool line
EmitsHeaderOf(k) ==
    LET shown == IF k = "" THEN "(UNKNOWN TOOL)" ELSE tool_data[k].display
    IN  \E h \in (Len(final) + 1)..(Len(final') - 3) :
            /\ final'[h] = "N100 " \o shown
            /\ final'[h + 1] = "G30U0W0" /\ final'[h + 2] = At(lines, i)

\* the key comments read since the previous tool change (or the start)
PendingComments == {j \in KeyComments(lines) : PreviousTool(lines, i) < j /\ j < i}
AheadComments == {j \in KeyComments(lines) : j > i}
BehindComments == {j \in KeyComments(lines) : j < i}

\* the greatest element of a non-empty set of integers
Greatest(S) == CHOOSE x \in S : \A y \in S : x >= y

\* C16: at a tool change, if a comment with a key has been read since the
\* previous tool change, the header is that of the most recent such comment,
\* whatever lies ahead; with none, it is that of the nearest comment ahead;
\* with none ahead either, that of the nearest comment behind.
C16_PendingThenAheadThenBehind ==
    [][ AtToolChange =>
          EmitsHeaderOf(
              IF PendingComments # {} THEN parse_tool_key(At(lines, Greatest(PendingComments)))
              ELSE IF AheadComments # {} THEN parse_tool_key(At(lines, Least(AheadComments)))
              ELSE IF BehindComments # {} THEN parse_tool_key(At(lines, Greatest(BehindComments)))
              ELSE "") ]_vars

\* a second tool change that took the pending key K1 although (K2) lay ahead
C16_Witness ==
    /\ pc = "done"
    /\ lines = <<"T0101", "(K2)", "(K1)", "T0101", "(K2)">>
    /\ Len(final) >= 9 /\ final[9] = "N100 (TOOL ONE)"

\* one character at each end: ( first and ) last
Parenthesised(s) == Ch(s, 1) = "(" /\ Ch(s, Len(s)) = ")"

\* C18 as stated: a line that begins with `(` produces no output and leaves
\* the active flag unchanged, and no line beginning with `(` is in the body.
C18_AsStated ==
    /\ [][ (pc = "loop" /\ i < Len(lines) /\ Ch(At(lines, i), 1) = "(") =>
              (final' = final /\ active_tool' = active_tool) ]_vars
    /\ [](\A k \in 1..Len(final) : Ch(final[k], 1) # "(")

\* C18 amended: a line that begins with `(` and ends with `)` produces no
\* output and changes nothing but the pending key and the position, and no
\* such line is in the body; a line that begins with `(` without ending
\* with `)` is passed through.
C18_ClosedCommentsOnly ==
    /\ [][ (pc = "loop" /\ i < Len(lines) /\ Ch(At(lines, i), 1) = "(") =>
              IF Parenthesised(At(lines, i))
              THEN /\ final' = final /\ active_tool' = active_tool /\ i' = i + 1
                   /\ UNCHANGED <<pc, lines, program_number, tool_data, output_lines>>
              ELSE final' = Append(final, At(lines, i)) ]_vars
    /\ [](\A k \in 1..Len(final) : ~Parenthesised(final[k]))

\* a finished run that read a comment and passed an unclosed one through
C18_Witness ==
    /\ pc = "done"
    /\ \E j \in 1..Len(lines) : lines[j] = "(K1)"
    /\ \E k \in 1..Len(final) : final[k] = "(X"

\* the comments with a key at most 30 lines ahead of and at most 15 lines
\* behind the line being read
WithinThirtyAhead == {j \in KeyComments(lines) : i + 1 <= j /\ j <= i + 30}
WithinFifteenBehind == {j \in KeyComments(lines) : i - 15 <= j /\ j <= i - 1}

\* C17: at a tool change with no pending key, the header is that of the
\* nearest comment with a key among the 30 lines ahead; with none there, that
\* of the nearest such comment among the 15 lines behind; with none there
\* either, the unknown-tool header.  A comment further away is never used.
C17_ThirtyAheadFifteenBehind ==
    [][ (AtToolChange /\ current_tool_key = "") =>
          EmitsHeaderOf(
              IF WithinThirtyAhead # {} THEN parse_tool_key(At(lines, Least(WithinThirtyAhead)))
              ELSE IF WithinFifteenBehind # {} THEN parse_tool_key(At(lines, Greatest(WithinFifteenBehind)))
              ELSE "") ]_vars

\* a finished run whose third tool change had (K2) 31 lines ahead and (K1)
\* 15 lines behind, and took K1
C17_Witness ==
    /\ pc = "done"
    /\ lines = <<"T0101", "(K1)", "T0101">> \o Moves(13) \o <<"T0101">> \o Moves(30) \o <<"(K2)">>
    /\ Cardinality({h \in 1..Len(final) : final[h] = "N100 (TOOL ONE)"}) = 3
====
